---- MODULE Spec2Model ----
(***************************************************************************)
(* Seismic monitor pipeline of valkyrris-monitor:                          *)
(*   useEarthquakes (feed poller + normaliser + region filter),            *)
(*   useNotifications (change detection + urgent-event dispatch),          *)
(*   useFirebaseNotifications (session registration + heartbeat),          *)
(*   useFirebaseNotifications / useSupabaseNotifications (realtime bridge), *)
(*   activateAudioContext / playAlertSound (audio alert engine),           *)
(*   the browser notifications both raise (alert surface),                 *)
(*   AdminDashboard (operator counter over the session collection).        *)
(* Magnitudes are in tenths (45 is M4.5), distances in whole kilometres,   *)
(* alert ages in seconds, session timestamps in minutes.                   *)
(***************************************************************************)
EXTENDS Integers, Sequences, FiniteSets, TLC

VARIABLES
    mounted,                    \* the EarthquakeMonitor component is mounted
    autoRefresh,                \* AdminDashboard state: auto refresh toggle
    minMagnitude,               \* useEarthquakes option (tenths), fixed per run
    earthquakes,                \* useEarthquakes state: the held result set
    loading,                    \* useEarthquakes state
    error,                      \* useEarthquakes state: "" stands for null
    inflight,                   \* fetches started and not yet settled
    pollTimer,                  \* the setInterval of the auto-refresh effect is armed
    language,                   \* LanguageContext value
    browserPermission,          \* Notification.permission
    notificationPermissionRef,  \* the hook's cached permission, "null" before it is set
    hookRequestPending,         \* requestPermission() promise of the mount effect
    testRequestPending,         \* requestPermission() promise of testNotification
    previousEarthquakesRef,     \* identifiers kept by the change detector
    registration,               \* registerSession: "writing" | "registered" | "failed"
    heartbeatTimer,             \* the setInterval of registerSession is armed
    sessions,                   \* the sessions collection of the shared store
    heartbeatError,             \* the last heartbeat write rejected (unhandled)
    lastDelta,                  \* identifiers of newEarthquakes in the last effect run
    lastAlerted,                \* identifiers passed to new Notification in that run
    lastSounded,                \* identifiers for which playAlertSound was called
    alertCount,                 \* per identifier: Notification constructions so far
    allPolled,                  \* identifiers of every result set handed to the hook
    enabled,                    \* the `enabled` option of the realtime hooks
    notifications,              \* the notifications collection of the Firebase store
    fbSubscriptionRef,          \* useFirebaseNotifications: subscriptionRef.current is set
    fbListeners,                \* onValue listeners attached and not detached
    fbInitialPending,           \* the first snapshot of a new listener is due
    rows,                       \* identifiers of the rows of admin_notifications
    sbSubscriptionRef,          \* useSupabaseNotifications: subscriptionRef.current is set
    sbChannels,                 \* channels created and neither closed nor removed
    sbLastStatus,               \* the last status the subscribe callback received
    dropped,                    \* (bridge, identifier) pairs dropped at the language check
    lastCallback,               \* the last channel event and what its handlers did
    isMobile,                   \* useNotifications: the user agent test, fixed per run
    sharedAudioContext,         \* "null", or the state of the shared AudioContext
    audioContextResumed,        \* useNotifications: module flag
    contextsConstructed,        \* AudioContext constructions so far
    playPc,                     \* where the playAlertSound call in progress waits
    playLog,                    \* what the last playAlertSound call did
    repeatTimers,               \* the setTimeout offsets of a play not yet fired
    actPc,                      \* where the activateAudioContext call in progress waits
    actOutcome,                 \* how the last activateAudioContext call ended
    rawBatch,                   \* data.features of the last normalised response
    normNow,                    \* Date.now() during that normalisation
    normalized,                 \* the filter + map output for rawBatch
    normThrew,                  \* the map stage dereferenced a missing block
    geoCenter,                  \* the centre of the last region test
    geoPoint,                   \* the point of the last region test
    geoRadius,                  \* its radius, whole km; -1 before any test
    geoWithin,                  \* the result of the test
    geoSwapped,                 \* the result with centre and point exchanged
    timeRange,                  \* the timeRange option of useEarthquakes
    pending,                    \* the fetches in flight, in the order they started
    held,                       \* which fetch produced the result set in `earthquakes`
    activeDevices,              \* AdminDashboard: the operator counter
    adminNow,                   \* Date.now() of the last snapshot it evaluated, 0 if none
    adminSeen,                  \* the session records of that snapshot
    surfaceThrows,              \* tags for which `new Notification` throws
    openAlerts,                 \* the alerts on screen
    lastClose,                  \* the last alert closed, and by what
    raised                      \* (bridge, identifier) pairs a handler raised an alert for

vars == << mounted, autoRefresh, minMagnitude, earthquakes, loading, error,
           inflight, pollTimer, language, browserPermission,
           notificationPermissionRef, hookRequestPending, testRequestPending,
           previousEarthquakesRef, registration, heartbeatTimer, sessions,
           heartbeatError, lastDelta, lastAlerted, lastSounded, alertCount, allPolled,
           enabled, notifications, fbSubscriptionRef, fbListeners, fbInitialPending,
           rows, sbSubscriptionRef, sbChannels, sbLastStatus, dropped, lastCallback,
           isMobile, sharedAudioContext, audioContextResumed, contextsConstructed,
           playPc, playLog, repeatTimers, actPc, actOutcome,
           rawBatch, normNow, normalized, normThrew,
           geoCenter, geoPoint, geoRadius, geoWithin, geoSwapped,
           timeRange, pending, held, activeDevices, adminNow, adminSeen,
           surfaceThrows, openAlerts, lastClose, raised >>

pollerVars == << earthquakes, loading, error, inflight, pollTimer >>
permVars == << browserPermission, notificationPermissionRef,
               hookRequestPending, testRequestPending >>
detectorVars == << previousEarthquakesRef, lastDelta, lastAlerted, lastSounded,
                   alertCount, allPolled >>
presenceVars == << registration, heartbeatTimer, sessions, heartbeatError >>
firebaseVars == << notifications, fbSubscriptionRef, fbListeners, fbInitialPending >>
supabaseVars == << rows, sbSubscriptionRef, sbChannels, sbLastStatus >>
bridgeVars == << enabled, firebaseVars, supabaseVars, dropped, lastCallback >>
playVars == << playPc, playLog, repeatTimers >>
audioVars == << isMobile, sharedAudioContext, audioContextResumed,
                contextsConstructed, playVars, actPc, actOutcome >>
normVars == << rawBatch, normNow, normalized, normThrew >>
geoVars == << geoCenter, geoPoint, geoRadius, geoWithin, geoSwapped >>
orderVars == << timeRange, pending, held >>
adminVars == << activeDevices, adminNow, adminSeen >>
restVars == << geoVars, adminVars >>
alertVars == << surfaceThrows, openAlerts, lastClose, raised >>
extVars == << orderVars, restVars, alertVars >>

------------------------------------------------------------------------------
(* Bounds *)
MaxInflight == 2        \* fetches in flight at once
MaxAlertCount == 2      \* alertCount saturates here
MaxHeartbeats == 2      \* heartbeat writes recorded in session.last_seen
MaxNotifications == 2   \* messages pushed to the Firebase collection
MaxRows == 2            \* rows inserted into admin_notifications
MaxContexts == 2        \* contextsConstructed saturates here
MaxBatchLen == 3        \* records in a normalised response

(* Program constants *)
UrgentThreshold == 45   \* quake.magnitude > 4.5
RadiusKm == 1500
LiveMinMagnitude == 1   \* minMagnitude: 0.1 at the call site
DefaultMinMagnitude == 25
FeedThreshold == 1      \* minMagnitude <= 0.1 selects the real-time feed

Languages == {"en", "ru"}
Permissions == {"default", "granted", "denied"}

------------------------------------------------------------------------------
(* Raw feed records.  fid "" is a missing or empty feature.id, mag 0 a     *)
(* missing or zero properties.mag, hasTime FALSE a missing properties.time,*)
(* depth 0 a missing third coordinate.                                     *)
RawFeatures == <<
    [fid |-> "eq1", props |-> TRUE,  geom |-> TRUE,  mag |-> 50, place |-> "Dead Sea",
     hasTime |-> TRUE,  time |-> 5, lon |-> 35, lat |-> 32, depth |-> 10],
    [fid |-> "eq2", props |-> TRUE,  geom |-> TRUE,  mag |-> 45, place |-> "",
     hasTime |-> TRUE,  time |-> 4, lon |-> 38, lat |-> 38, depth |-> 0],
    [fid |-> "",    props |-> TRUE,  geom |-> TRUE,  mag |-> 46, place |-> "Cyprus",
     hasTime |-> TRUE,  time |-> 3, lon |-> 36, lat |-> 34, depth |-> 7],
    [fid |-> "eq4", props |-> TRUE,  geom |-> FALSE, mag |-> 60, place |-> "nowhere",
     hasTime |-> TRUE,  time |-> 6, lon |-> 0,  lat |-> 0,  depth |-> 0],
    [fid |-> "eq5", props |-> TRUE,  geom |-> TRUE,  mag |-> 0,  place |-> "Iran",
     hasTime |-> FALSE, time |-> 0, lon |-> 60, lat |-> 31, depth |-> 12]
>>

Batches == SUBSET (1..Len(RawFeatures))

NowValues == {9}        \* Date.now() at the time of a response

(* The haversine distance from (31.0, 35.0), in whole km, of the points    *)
(* that occur in RawFeatures.                                              *)
HaversineKm(lat, lon) ==
    CASE lat = 32 /\ lon = 35 -> 111
      [] lat = 38 /\ lon = 38 -> 825
      [] lat = 34 /\ lon = 36 -> 346
      [] lat = 31 /\ lon = 60 -> 2377
      [] OTHER -> 9999

------------------------------------------------------------------------------
(* EventNormalizer: the filter and map of fetchEarthquakesFn *)

(* a filter that asks for the properties block only *)
HasProperties(f) == f.props

(* feature && feature.properties && feature.geometry && feature.geometry.coordinates *)
IsWellFormed(f) == f.props /\ f.geom

SyntheticId(f) ==
    "quake-" \o (IF f.hasTime THEN ToString(f.time) ELSE "undefined")
             \o "-" \o ToString(f.lon) \o "-" \o ToString(f.lat)

Normalize(f, now) ==
    [id        |-> IF f.fid # "" THEN f.fid ELSE SyntheticId(f),
     magnitude |-> f.mag,
     place     |-> IF f.place # "" THEN f.place ELSE "Unknown",
     time      |-> IF f.hasTime /\ f.time # 0 THEN f.time ELSE now,
     depth     |-> f.depth,
     latitude  |-> f.lat,
     longitude |-> f.lon]

RECURSIVE BatchSeq(_, _)
(* data.features of a response carrying the records `batch`, in feed order *)
BatchSeq(batch, i) ==
    IF i > Len(RawFeatures) THEN << >>
    ELSE (IF i \in batch THEN << RawFeatures[i] >> ELSE << >>) \o BatchSeq(batch, i + 1)

RECURSIVE MapNormalize(_, _)
MapNormalize(fs, now) ==
    IF fs = << >> THEN << >>
    ELSE (IF IsWellFormed(Head(fs)) THEN << Normalize(Head(fs), now) >> ELSE << >>)
         \o MapNormalize(Tail(fs), now)

InRegion(q, minMag) ==
    HaversineKm(q.latitude, q.longitude) <= RadiusKm /\ q.magnitude >= minMag

RECURSIVE Insert(_, _)
(* stable insertion keeping time descending: q goes after equal times *)
Insert(q, s) ==
    IF s = << >> THEN << q >>
    ELSE IF q.time > Head(s).time THEN << q >> \o s
         ELSE << Head(s) >> \o Insert(q, Tail(s))

(* the list as the filter left it *)
FeedOrder(s) == s

RECURSIVE SortByTimeDesc(_)
SortByTimeDesc(s) ==
    IF s = << >> THEN << >>
    ELSE LET n == Len(s) IN Insert(s[n], SortByTimeDesc(SubSeq(s, 1, n - 1)))

(* earthquakesData of a successful fetch *)
Transform(batch, now, minMag) ==
    LET mapped == MapNormalize(BatchSeq(batch, 1), now)
        kept   == IF minMag <= FeedThreshold
                  THEN SelectSeq(mapped, LAMBDA q: InRegion(q, minMag))
                  ELSE mapped
    IN  SortByTimeDesc(kept)

Ids(list) == { list[i].id : i \in 1..Len(list) }

AllIds == UNION { Ids(Transform(b, 8, DefaultMinMagnitude)) : b \in Batches }

------------------------------------------------------------------------------
(* The alert surface: browser notifications.  Ages are in seconds.         *)

AutoCloseSeconds == 15

(* an alert that nothing closes on its own *)
StickyAlert(tag) ==
    [source |-> "local", tag |-> tag, age |-> 0, timer |-> FALSE,
     requireInteraction |-> TRUE]

(* new Notification(title, { tag: quake.id, requireInteraction: true })    *)
(* followed by setTimeout(() => notification.close(), 15000)               *)
LocalAlert(tag) ==
    [source |-> "local", tag |-> tag, age |-> 0, timer |-> TRUE,
     requireInteraction |-> TRUE]

(* the Firebase handler: requireInteraction: false, no timer.  The tag      *)
(* carries the message's id field or else Date.now(); one record is kept    *)
(* per message.                                                            *)
FirebaseAlert(id) ==
    [source |-> "firebase", tag |-> "earthquake-monitor-" \o id, age |-> 0,
     timer |-> FALSE, requireInteraction |-> FALSE]

(* the Supabase handler: requireInteraction: true and a 15 s timer *)
SupabaseAlert(id) ==
    [source |-> "supabase", tag |-> "admin-notification-" \o id, age |-> 0,
     timer |-> TRUE, requireInteraction |-> TRUE]

BridgeAlert(bridge, id) ==
    IF bridge = "firebase" THEN FirebaseAlert(id) ELSE SupabaseAlert(id)

(* an alert with the tag of one on screen replaces it *)
Raise(alerts, new) ==
    { a \in alerts : \A n \in new : n.tag # a.tag } \cup new

NoClose == [source |-> "", tag |-> "", by |-> "", focused |-> FALSE]

------------------------------------------------------------------------------
(* ChangeDetector and NotificationDispatcher: the second effect of        *)
(* useNotifications, run with the hook's `earthquakes` prop equal to list. *)
(* `enabled` is true at the only call site.                                *)

EffectProceeds(list, perm) == Len(list) # 0 /\ perm = "granted"

NewEarthquakes(list, prev) == SelectSeq(list, LAMBDA q: q.id \notin prev)

IsUrgent(q) == q.magnitude > UrgentThreshold

(* previousEarthquakesRef.current = currentIds *)
NextSeen(list, prev) == Ids(list)

RECURSIVE StopsAtThrow(_, _)
(* a forEach whose callback lets the exception out: the first throwing     *)
(* construction ends it                                                    *)
StopsAtThrow(new, throws) ==
    IF new = << >> THEN << >>
    ELSE IF IsUrgent(Head(new)) /\ Head(new).id \in throws
         THEN << Head(new) >>
         ELSE << Head(new) >> \o StopsAtThrow(Tail(new), throws)

(* try { ... new Notification ... } catch inside the callback: forEach     *)
(* visits every event                                                      *)
Visited(new, throws) == new

Min(a, b) == IF a < b THEN a ELSE b

Bump(counts, ids) ==
    [i \in DOMAIN counts |->
        IF i \in ids THEN Min(counts[i] + 1, MaxAlertCount) ELSE counts[i]]

MonitorEffect(list) ==
    /\ allPolled' = allPolled \cup Ids(list)
    /\ IF EffectProceeds(list, notificationPermissionRef)
       THEN LET new     == NewEarthquakes(list, previousEarthquakesRef)
                visited == Visited(new, surfaceThrows)
                urgent  == Ids(SelectSeq(visited, IsUrgent))
                built   == urgent \ surfaceThrows
            IN  /\ lastDelta' = Ids(new)
                /\ lastSounded' = urgent
                /\ lastAlerted' = built
                /\ alertCount' = Bump(alertCount, built)
                /\ openAlerts' = Raise(openAlerts, { LocalAlert(id) : id \in built })
                /\ previousEarthquakesRef' =
                      IF Len(visited) = Len(new)
                      THEN NextSeen(list, previousEarthquakesRef)
                      ELSE previousEarthquakesRef
       ELSE /\ lastDelta' = {}
            /\ lastSounded' = {}
            /\ lastAlerted' = {}
            /\ UNCHANGED << alertCount, previousEarthquakesRef, openAlerts >>

------------------------------------------------------------------------------
(* FeedPoller: fetchEarthquakesFn and the auto-refresh effect *)

FailureKinds == {"reject", "non2xx", "badjson"}

ErrorMessage(kind) ==
    CASE kind = "reject"  -> "Failed to fetch"
      [] kind = "non2xx"  -> "API error: Service Unavailable"
      [] kind = "badjson" -> "Unexpected token < in JSON at position 0"

TimeRanges == {"24h", "7d"}

(* no result set delivered yet *)
NoPoll == [range |-> "", floor |-> 0, stale |-> FALSE]

(* the fetch at position k of `pending` settles.  When it replaces the     *)
(* held result set, the fetches that started before it are from then on    *)
(* older than the held one, those that started after it are newer.         *)
SettlePoll(k, replaces) ==
    /\ pending' = [i \in 1..(Len(pending) - 1) |->
                     LET e == pending[IF i < k THEN i ELSE i + 1]
                     IN  IF replaces THEN [e EXCEPT !.older = (i < k)] ELSE e]
    /\ held' = IF replaces
               THEN [range |-> pending[k].range, floor |-> pending[k].floor,
                     stale |-> pending[k].older]
               ELSE held

(* setLoading(true); setError(null); the request leaves *)
StartFetchWith(range, floor) ==
    /\ inflight < MaxInflight
    /\ loading' = TRUE
    /\ error' = ""
    /\ inflight' = inflight + 1
    /\ pending' = Append(pending, [range |-> range, floor |-> floor, older |-> FALSE])

(* a fetch under the options of the current render *)
StartFetch == StartFetchWith(timeRange, minMagnitude)

(* a tick of setInterval(fetchEarthquakesFn, 10 * 1000) *)
IntervalTick ==
    /\ pollTimer
    /\ StartFetch
    /\ UNCHANGED << mounted, autoRefresh, minMagnitude, earthquakes, pollTimer,
                    language, permVars, detectorVars, presenceVars, bridgeVars, audioVars, normVars,
                    timeRange, held, restVars, alertVars >>

(* the manual refresh control, shown while auto refresh is off *)
Refetch ==
    /\ mounted
    /\ ~autoRefresh
    /\ StartFetch
    /\ UNCHANGED << mounted, autoRefresh, minMagnitude, earthquakes, pollTimer,
                    language, permVars, detectorVars, presenceVars, bridgeVars, audioVars, normVars,
                    timeRange, held, restVars, alertVars >>

(* setAutoRefresh: the effect's cleanup clears the interval, the effect    *)
(* runs again: one fetch, and a new interval when auto refresh is on.      *)
SetAutoRefresh ==
    /\ mounted
    /\ autoRefresh' = ~autoRefresh
    /\ StartFetch
    /\ pollTimer' = autoRefresh'
    /\ UNCHANGED << mounted, minMagnitude, earthquakes, language, permVars,
                    detectorVars, presenceVars, bridgeVars, audioVars, normVars,
                    timeRange, held, restVars, alertVars >>

(* setTimeRange: the effect's cleanup clears the interval, the effect runs *)
(* again with the new option; fetches in flight are left to settle.        *)
SetTimeRange(r) ==
    /\ mounted
    /\ r # timeRange
    /\ timeRange' = r
    /\ StartFetchWith(r, minMagnitude)
    /\ pollTimer' = autoRefresh
    /\ UNCHANGED << mounted, autoRefresh, minMagnitude, earthquakes, language,
                    permVars, detectorVars, presenceVars, bridgeVars, audioVars,
                    normVars, held, restVars, alertVars >>

(* the minMagnitude option changes: the same effect runs again *)
SetMinMagnitude(floor) ==
    /\ mounted
    /\ floor # minMagnitude
    /\ minMagnitude' = floor
    /\ StartFetchWith(timeRange, floor)
    /\ pollTimer' = autoRefresh
    /\ UNCHANGED << mounted, autoRefresh, earthquakes, language,
                    permVars, detectorVars, presenceVars, bridgeVars, audioVars,
                    normVars, timeRange, held, restVars, alertVars >>


(* a catch branch that also drops the held result set *)
FetchFailedClearsResults(kind) ==
    /\ inflight > 0
    /\ inflight' = inflight - 1
    /\ \E k \in 1..Len(pending) : SettlePoll(k, FALSE)
    /\ IF mounted
       THEN error' = ErrorMessage(kind) /\ loading' = FALSE /\ earthquakes' = << >>
       ELSE UNCHANGED << error, loading, earthquakes >>
    /\ UNCHANGED << mounted, autoRefresh, minMagnitude, pollTimer,
                    language, permVars, detectorVars, presenceVars, bridgeVars, audioVars, normVars,
                    timeRange, restVars, alertVars >>

(* a catch branch whose fault ends the interval loop *)
FetchFailedStopsLoop(kind) ==
    /\ inflight > 0
    /\ inflight' = inflight - 1
    /\ \E k \in 1..Len(pending) : SettlePoll(k, FALSE)
    /\ IF mounted
       THEN error' = ErrorMessage(kind) /\ loading' = FALSE
       ELSE UNCHANGED << error, loading >>
    /\ pollTimer' = FALSE
    /\ UNCHANGED << mounted, autoRefresh, minMagnitude, earthquakes,
                    language, permVars, detectorVars, presenceVars, bridgeVars, audioVars, normVars,
                    timeRange, restVars, alertVars >>

(* the catch branch: fetch rejected, response not ok, or json() threw *)
FetchFailed(kind) ==
    /\ inflight > 0
    /\ inflight' = inflight - 1
    /\ \E k \in 1..Len(pending) : SettlePoll(k, FALSE)
    /\ IF mounted
       THEN error' = ErrorMessage(kind) /\ loading' = FALSE
       ELSE UNCHANGED << error, loading >>
    /\ UNCHANGED << mounted, autoRefresh, minMagnitude, earthquakes, pollTimer,
                    language, permVars, detectorVars, presenceVars, bridgeVars, audioVars, normVars,
                    timeRange, restVars, alertVars >>

(* the response parsed but has no features array: setEarthquakes([]) *)
FetchInvalid ==
    /\ inflight > 0
    /\ inflight' = inflight - 1
    /\ \E k \in 1..Len(pending) : SettlePoll(k, mounted)
    /\ IF mounted
       THEN /\ earthquakes' = << >>
            /\ loading' = FALSE
            /\ MonitorEffect(<< >>)
       ELSE UNCHANGED << earthquakes, loading, detectorVars, openAlerts >>
    /\ UNCHANGED << mounted, autoRefresh, minMagnitude, error, pollTimer,
                    language, permVars, presenceVars, bridgeVars, audioVars, normVars,
                    timeRange, restVars,
                    surfaceThrows, lastClose, raised >>

(* a response with a features array: transform, setEarthquakes, and the    *)
(* notification effect that the new result set triggers                    *)
FetchSucceeded(batch, now) ==
    /\ inflight > 0
    /\ inflight' = inflight - 1
    /\ \E k \in 1..Len(pending) :
          /\ SettlePoll(k, mounted)
          /\ IF mounted
             THEN /\ earthquakes' = Transform(batch, now, pending[k].floor)
                  /\ loading' = FALSE
                  /\ MonitorEffect(earthquakes')
             ELSE UNCHANGED << earthquakes, loading, detectorVars, openAlerts >>
    /\ UNCHANGED << mounted, autoRefresh, minMagnitude, error, pollTimer,
                    language, permVars, presenceVars, bridgeVars, audioVars, normVars,
                    timeRange, restVars,
                    surfaceThrows, lastClose, raised >>

(* the language changes: the notification effect runs again *)
SetLanguage(l) ==
    /\ mounted
    /\ l # language
    /\ language' = l
    /\ MonitorEffect(earthquakes)
    /\ UNCHANGED << mounted, autoRefresh, minMagnitude, pollerVars, permVars,
                    presenceVars, bridgeVars, audioVars, normVars,
                    orderVars, restVars, surfaceThrows, lastClose, raised >>

------------------------------------------------------------------------------
(* Notification permission *)

(* the user answers (or dismisses) the permission prompt; every pending    *)
(* requestPermission() promise resolves with the answer                    *)
RespondPrompt(p) ==
    /\ hookRequestPending \/ testRequestPending
    /\ browserPermission' = p
    /\ notificationPermissionRef' =
          IF hookRequestPending THEN p ELSE notificationPermissionRef
    /\ hookRequestPending' = FALSE
    /\ testRequestPending' = FALSE
    /\ UNCHANGED << mounted, autoRefresh, minMagnitude, pollerVars, language,
                    detectorVars, presenceVars, bridgeVars, audioVars, normVars, extVars >>

(* testNotification while permission is not granted and can be asked for *)
TestNotification ==
    /\ mounted
    /\ browserPermission = "default"
    /\ ~testRequestPending
    /\ testRequestPending' = TRUE
    /\ UNCHANGED << mounted, autoRefresh, minMagnitude, pollerVars, language,
                    browserPermission, notificationPermissionRef,
                    hookRequestPending, detectorVars, presenceVars, bridgeVars, audioVars, normVars, extVars >>

------------------------------------------------------------------------------
(* PresenceRegistry: registerSession of useFirebaseNotifications *)

SessionId == "1730000000000-k3j9x2m1a"
UserAgent == "Mozilla/5.0"

(* Timestamps of the store are in minutes.  serverTimestamp() of the       *)
(* registration write; every later write stores a later one.               *)
FirstSeen == 1

(* records that other sessions wrote to the collection *)
OtherSessions == {
    [session_id |-> "1729999999000-a8c0p4q7z", user_agent |-> "Safari/17",
     last_seen |-> 2, notification_permission |-> "denied"],
    [session_id |-> "1729999999500-m2n5b8v1c", user_agent |-> "Firefox/130",
     last_seen |-> 4, notification_permission |-> "granted"] }

(* await set(sessionRef, sessionData) resolved; the interval is created,   *)
(* whether or not the component is still mounted                           *)
RegisterSucceeded ==
    /\ registration = "writing"
    /\ registration' = "registered"
    /\ sessions' = { s \in sessions : s.session_id # SessionId }
                    \cup { [session_id |-> SessionId, user_agent |-> UserAgent,
                            last_seen |-> FirstSeen,
                            notification_permission |-> browserPermission] }
    /\ heartbeatTimer' = TRUE
    /\ UNCHANGED << mounted, autoRefresh, minMagnitude, pollerVars, language,
                    permVars, detectorVars, heartbeatError, bridgeVars, audioVars, normVars, extVars >>

(* the write threw: the catch logs, no interval is created *)
RegisterFailed ==
    /\ registration = "writing"
    /\ registration' = "failed"
    /\ UNCHANGED << mounted, autoRefresh, minMagnitude, pollerVars, language,
                    permVars, detectorVars, heartbeatTimer, sessions,
                    heartbeatError, bridgeVars, audioVars, normVars, extVars >>

(* a write that stores the whole record again *)
RewriteRecord(s) ==
    [s EXCEPT !.last_seen = s.last_seen + 1, !.notification_permission = "default"]

(* sessions/<id>/last_seen takes a later server timestamp *)
TouchLastSeen(s) == [s EXCEPT !.last_seen = s.last_seen + 1]

(* a tick of the 30 s interval: set(.../last_seen, serverTimestamp()) *)
HeartbeatTick(ok) ==
    /\ heartbeatTimer
    /\ \A s \in sessions :
          s.session_id = SessionId => s.last_seen < FirstSeen + MaxHeartbeats
    /\ sessions' = IF ok
                   THEN { IF s.session_id = SessionId THEN TouchLastSeen(s) ELSE s :
                          s \in sessions }
                   ELSE sessions
    /\ heartbeatError' = ~ok
    /\ UNCHANGED << mounted, autoRefresh, minMagnitude, pollerVars, language,
                    permVars, detectorVars, registration, heartbeatTimer,
                    bridgeVars, audioVars, normVars, extVars >>

------------------------------------------------------------------------------
(* RealtimeBridge: the subscription effects of useFirebaseNotifications    *)
(* and useSupabaseNotifications.  languageRef.current follows `language`   *)
(* (an effect copies it after every change), so `language` stands for it.  *)

(* Broadcast messages; every message carries a language tag. *)
Messages == {
    [id |-> "n1", language |-> "all", sound |-> TRUE],
    [id |-> "n2", language |-> "ru",  sound |-> TRUE],
    [id |-> "n3", language |-> "all", sound |-> FALSE] }

ChannelStatuses == {"CHANNEL_ERROR", "TIMED_OUT", "CLOSED"}

NoOutcome ==
    [id |-> "", tag |-> "", mismatch |-> FALSE, alerted |-> FALSE, sounded |-> FALSE]

(* a handler that keeps the language of a mount in English *)
MountLanguage(refValue) == "en"

(* const currentLanguage = languageRef.current *)
CurrentLanguage(refValue) == refValue

(* a language check that lets only the viewer's own language through *)
MismatchUnlessOwnLanguage(m, lang) == m.language # lang

(* notification.language && language !== 'all' && language !== currentLanguage *)
LanguageMismatch(m, lang) ==
    m.language # "" /\ m.language # "all" /\ m.language # lang

(* the onValue callback on a snapshot of the collection: the last key is    *)
(* taken as the message, whatever caused the snapshot                       *)
FirebaseCallback(list, lang, perm) ==
    IF list = << >> THEN NoOutcome
    ELSE LET m == list[Len(list)]
         IN  IF LanguageMismatch(m, lang)
             THEN [id |-> m.id, tag |-> m.language, mismatch |-> TRUE,
                   alerted |-> FALSE, sounded |-> FALSE]
             ELSE IF perm # "granted"
             THEN [id |-> m.id, tag |-> m.language, mismatch |-> FALSE,
                   alerted |-> FALSE, sounded |-> FALSE]
             ELSE [id |-> m.id, tag |-> m.language, mismatch |-> FALSE,
                   alerted |-> TRUE, sounded |-> m.sound]

(* the postgres_changes callback on the inserted row payload.new *)
SupabaseCallback(m, lang, perm) ==
    IF LanguageMismatch(m, lang)
    THEN [id |-> m.id, tag |-> m.language, mismatch |-> TRUE,
          alerted |-> FALSE, sounded |-> FALSE]
    ELSE IF perm # "granted"
    THEN [id |-> m.id, tag |-> m.language, mismatch |-> FALSE,
          alerted |-> FALSE, sounded |-> FALSE]
    ELSE [id |-> m.id, tag |-> m.language, mismatch |-> FALSE,
          alerted |-> TRUE, sounded |-> TRUE]

(* a channel event reaches `handled` handlers of `bridge`, each with outcome out *)
RecordEvent(bridge, handled, out) ==
    /\ lastCallback' =
          [bridge |-> bridge, id |-> out.id, tag |-> out.tag, viewer |-> language,
           handled |-> handled,
           alerted |-> handled > 0 /\ out.alerted,
           sounded |-> handled > 0 /\ out.sounded,
           wasDropped |-> << bridge, out.id >> \in dropped,
           wasRaised |-> << bridge, out.id >> \in raised,
           live |-> mounted /\ enabled]
    /\ dropped' = IF handled > 0 /\ out.mismatch
                  THEN dropped \cup { << bridge, out.id >> } ELSE dropped
    /\ raised' = IF handled > 0 /\ out.alerted
                 THEN raised \cup { << bridge, out.id >> } ELSE raised
    /\ openAlerts' = IF handled > 0 /\ out.alerted
                     THEN Raise(openAlerts, { BridgeAlert(bridge, out.id) })
                     ELSE openAlerts

(* a subscription effect that never takes the guard's early return *)
NeverSkipped(ref) == FALSE

(* if (subscriptionRef.current) return *)
SubscribeSkipped(ref) == ref

(* if (status === 'CLOSED') subscriptionRef.current = null *)
StatusResetsGuard(status) == status = "CLOSED"

(* the cleanup of the Supabase effect: removeChannel only if the `enabled`  *)
(* of the effect run that returned it is false                              *)
SupabaseCleanupRemoves(closureEnabled) == ~closureEnabled /\ sbSubscriptionRef

(* the cleanup of the Firebase effect, then the effect with enabled = en.   *)
(* The cleanup exists when the run before subscribed; otherwise the ref is  *)
(* null and the cleanup's body would do nothing.                            *)
FirebaseEffectPass(en) ==
    LET detached == IF fbSubscriptionRef /\ fbListeners > 0
                    THEN fbListeners - 1 ELSE fbListeners
        ref      == FALSE
    IN  IF en /\ ~SubscribeSkipped(ref)
        THEN /\ fbSubscriptionRef' = TRUE
             /\ fbListeners' = detached + 1
             /\ fbInitialPending' = TRUE
        ELSE /\ fbSubscriptionRef' = ref
             /\ fbListeners' = detached
             /\ fbInitialPending' = FALSE

(* the cleanup of the Supabase effect (returned only by a run that passed   *)
(* the `enabled` test), then the effect with enabled = en                   *)
SupabaseEffectPass(en) ==
    LET removes == enabled /\ SupabaseCleanupRemoves(enabled)
        ref     == IF removes THEN FALSE ELSE sbSubscriptionRef
        kept    == IF removes THEN sbChannels - 1 ELSE sbChannels
    IN  IF en /\ ~SubscribeSkipped(ref)
        THEN /\ sbSubscriptionRef' = TRUE
             /\ sbChannels' = kept + 1
             /\ sbLastStatus' = "SUBSCRIBED"
        ELSE /\ sbSubscriptionRef' = ref
             /\ sbChannels' = kept
             /\ UNCHANGED sbLastStatus

(* the `enabled` option changes: one lifecycle pass of every [enabled]      *)
(* effect; registerSession runs again when the hook is enabled              *)
SetEnabled(en) ==
    /\ mounted
    /\ en # enabled
    /\ enabled' = en
    /\ FirebaseEffectPass(en)
    /\ SupabaseEffectPass(en)
    /\ registration' = IF en THEN "writing" ELSE registration
    /\ UNCHANGED << mounted, autoRefresh, minMagnitude, pollerVars, language,
                    permVars, detectorVars, heartbeatTimer, sessions,
                    heartbeatError, notifications, rows, dropped, lastCallback,
                    audioVars, normVars, extVars >>

(* a snapshot event other than the first needs a change of the collection: *)
(* the operator's push(notificationsRef) and set                           *)
FirebasePush(m) ==
    /\ Len(notifications) < MaxNotifications
    /\ \A i \in 1..Len(notifications) : notifications[i].id # m.id
    /\ fbListeners > 0 => ~fbInitialPending
    /\ notifications' = Append(notifications, m)
    /\ RecordEvent("firebase", fbListeners,
                   FirebaseCallback(notifications',
                                    CurrentLanguage(language),
                                    browserPermission))
    /\ UNCHANGED << mounted, autoRefresh, minMagnitude, pollerVars, language,
                    permVars, detectorVars, presenceVars, enabled,
                    fbSubscriptionRef, fbListeners, fbInitialPending, supabaseVars,
                    audioVars, normVars,
                    orderVars, restVars, surfaceThrows, lastClose >>

(* the first snapshot onValue hands to a newly attached listener *)
FirebaseInitialSnapshot ==
    /\ fbInitialPending
    /\ fbListeners > 0
    /\ fbInitialPending' = FALSE
    /\ RecordEvent("firebase", fbListeners,
                   FirebaseCallback(notifications,
                                    CurrentLanguage(language),
                                    browserPermission))
    /\ UNCHANGED << mounted, autoRefresh, minMagnitude, pollerVars, language,
                    permVars, detectorVars, presenceVars, enabled, notifications,
                    fbSubscriptionRef, fbListeners, supabaseVars, audioVars, normVars,
                    orderVars, restVars, surfaceThrows, lastClose >>

(* the store cancels the listener: the error callback logs *)
FirebaseError ==
    /\ fbListeners > 0
    /\ fbListeners' = fbListeners - 1
    /\ fbInitialPending' = FALSE
    /\ UNCHANGED << mounted, autoRefresh, minMagnitude, pollerVars, language,
                    permVars, detectorVars, presenceVars, enabled, notifications,
                    fbSubscriptionRef, supabaseVars, dropped, lastCallback,
                    audioVars, normVars, extVars >>

(* a row is inserted into admin_notifications: every live channel runs the *)
(* postgres_changes callback with it                                        *)
SupabaseInsert(m) ==
    /\ Cardinality(rows) < MaxRows
    /\ m.id \notin rows
    /\ rows' = rows \cup {m.id}
    /\ RecordEvent("supabase", sbChannels,
                   SupabaseCallback(m, CurrentLanguage(language),
                                    browserPermission))
    /\ UNCHANGED << mounted, autoRefresh, minMagnitude, pollerVars, language,
                    permVars, detectorVars, presenceVars, enabled, firebaseVars,
                    sbSubscriptionRef, sbChannels, sbLastStatus, audioVars, normVars,
                    orderVars, restVars, surfaceThrows, lastClose >>

(* the callback of channel.subscribe: CLOSED resets the ref, the other      *)
(* statuses are logged.  A closed channel delivers nothing more.            *)
ChannelStatus(status) ==
    /\ sbChannels > 0
    /\ sbLastStatus # status
    /\ sbLastStatus' = status
    /\ sbSubscriptionRef' = IF StatusResetsGuard(status) THEN FALSE ELSE sbSubscriptionRef
    /\ sbChannels' = IF status = "CLOSED" THEN sbChannels - 1 ELSE sbChannels
    /\ UNCHANGED << mounted, autoRefresh, minMagnitude, pollerVars, language,
                    permVars, detectorVars, presenceVars, enabled, firebaseVars,
                    rows, dropped, lastCallback, audioVars, normVars, extVars >>

------------------------------------------------------------------------------
(* AudioAlertEngine: activateAudioContext and playAlertSound of            *)
(* useNotifications.  A call runs from one await to the next in one step;   *)
(* one playAlertSound call and one activateAudioContext call are followed   *)
(* at a time.  The tone counts as started when source.start(0) returned or  *)
(* the audio element's play() promise resolved.                             *)

RepeatOffsets == {600, 1200}

(* the state of a newly constructed AudioContext *)
ContextStates == {"suspended", "running"}

(* how an awaited resume() settles: it resolves with the context running,   *)
(* resolves with the context still suspended, or rejects                    *)
ResumeResults == {"running", "suspended", "reject"}

NoPlay ==
    [directStarted |-> FALSE, html5Entered |-> FALSE, html5Played |-> FALSE,
     starts |-> 0, outcome |-> "none"]

(* a call that lets an exception thrown in its body reach the caller *)
Uncaught(thrown) == thrown

(* the outer try/catch of playAlertSound: the catch logs *)
PlayEscapes(thrown) == FALSE

(* the try/catch of activateAudioContext: the catch logs *)
ActivateEscapes(thrown) == FALSE

(* a fallback taken on every play *)
FallbackAlways(webAudioPlayed) == TRUE

(* if (!webAudioPlayed) *)
FallbackNeeded(webAudioPlayed) == ~webAudioPlayed

(* a repetition that starts the tone in any device state *)
RepeatAlways(state) == TRUE

(* if (sharedAudioContext && sharedAudioContext.state === 'running') *)
RepeatStarts(state) == state = "running"

(* the context state after an awaited resume() settled with `result` *)
AfterResume(state, result) == IF result = "running" THEN "running" ELSE state

Ended(log, thrown) ==
    [log EXCEPT !.outcome = IF PlayEscapes(thrown) THEN "rejected" ELSE "resolved"]

Count(n) == Min(n, MaxContexts)

(* mobile branch from the state test at line 149 on: the direct tier when   *)
(* the context runs (tier1Threw: the first try block already threw), then   *)
(* the HTML5 tier, which builds its buffer in an AudioContext of its own    *)
MobileTail(log, state, tier1Threw, directOk, fallbackCtorOk, constructed) ==
    LET webAudioPlayed == ~tier1Threw /\ state = "running" /\ directOk
        direct == [log EXCEPT !.directStarted = webAudioPlayed,
                              !.starts = IF webAudioPlayed THEN 1 ELSE 0]
    IN  IF ~FallbackNeeded(webAudioPlayed)
        THEN /\ playLog' = Ended(direct, FALSE)
             /\ playPc' = "idle"
             /\ contextsConstructed' = Count(constructed)
        ELSE IF fallbackCtorOk
        THEN /\ playLog' = [direct EXCEPT !.html5Entered = TRUE, !.outcome = "pending"]
             /\ playPc' = "html5"
             /\ contextsConstructed' = Count(constructed + 1)
        ELSE /\ playLog' = Ended([direct EXCEPT !.html5Entered = TRUE], FALSE)
             /\ playPc' = "idle"
             /\ contextsConstructed' = Count(constructed)

(* desktop branch from the final state check at line 251 on *)
DesktopTail(log, state, directOk) ==
    IF state # "running"
    THEN /\ playLog' = Ended(log, FALSE)
         /\ playPc' = "idle"
         /\ repeatTimers' = {}
    ELSE IF directOk
    THEN /\ playLog' = Ended([log EXCEPT !.directStarted = TRUE, !.starts = 1], FALSE)
         /\ playPc' = "idle"
         /\ repeatTimers' = RepeatOffsets
    ELSE /\ playLog' = Ended(log, TRUE)
         /\ playPc' = "idle"
         /\ repeatTimers' = {}

(* playAlertSound is called on a constrained platform: up to its first await *)
PlayMobile(ctorOk, initial, directOk, fallbackCtorOk) ==
    /\ isMobile
    /\ playPc = "idle" /\ repeatTimers = {}
    /\ LET construct == sharedAudioContext = "null"
           threw     == construct /\ ~ctorOk
           state     == IF construct /\ ctorOk THEN initial ELSE sharedAudioContext
           built     == IF construct /\ ctorOk THEN contextsConstructed + 1
                        ELSE contextsConstructed
       IN  /\ sharedAudioContext' = state
           /\ IF ~threw /\ state = "suspended"
              THEN /\ playPc' = "resume"
                   /\ playLog' = [NoPlay EXCEPT !.outcome = "pending"]
                   /\ contextsConstructed' = Count(built)
              ELSE MobileTail(NoPlay, state, threw, directOk, fallbackCtorOk, built)
    /\ UNCHANGED << mounted, autoRefresh, minMagnitude, pollerVars, language,
                    permVars, detectorVars, presenceVars, bridgeVars, normVars, extVars,
                    isMobile, audioContextResumed, repeatTimers, actPc, actOutcome >>

(* the resume() awaited at line 141 settles; a rejection is caught at 143 *)
PlayResumeMobile(result, directOk, fallbackCtorOk) ==
    /\ isMobile
    /\ playPc = "resume"
    /\ sharedAudioContext' = AfterResume(sharedAudioContext, result)
    /\ MobileTail(playLog, sharedAudioContext', FALSE, directOk, fallbackCtorOk,
                  contextsConstructed)
    /\ UNCHANGED << mounted, autoRefresh, minMagnitude, pollerVars, language,
                    permVars, detectorVars, presenceVars, bridgeVars, normVars, extVars,
                    isMobile, audioContextResumed, repeatTimers, actPc, actOutcome >>

(* the audio element's play() promise settles *)
Html5Settles(ok) ==
    /\ playPc = "html5"
    /\ playLog' = Ended([playLog EXCEPT !.html5Played = ok,
                                        !.starts = IF ok THEN @ + 1 ELSE @], FALSE)
    /\ playPc' = "idle"
    /\ UNCHANGED << mounted, autoRefresh, minMagnitude, pollerVars, language,
                    permVars, detectorVars, presenceVars, bridgeVars, normVars, extVars,
                    isMobile, sharedAudioContext, audioContextResumed,
                    contextsConstructed, repeatTimers, actPc, actOutcome >>

(* playAlertSound is called on a desktop platform: up to its first await *)
PlayDesktop(ctorOk, initial, directOk) ==
    /\ ~isMobile
    /\ playPc = "idle" /\ repeatTimers = {}
    /\ LET construct == sharedAudioContext = "null"
           threw     == construct /\ ~ctorOk
           state     == IF construct /\ ctorOk THEN initial ELSE sharedAudioContext
       IN  /\ sharedAudioContext' = state
           /\ contextsConstructed' = IF construct /\ ctorOk
                                     THEN Count(contextsConstructed + 1)
                                     ELSE contextsConstructed
           /\ IF threw
              THEN /\ playLog' = Ended(NoPlay, TRUE)
                   /\ playPc' = "idle"
                   /\ repeatTimers' = {}
              ELSE IF state = "suspended"
              THEN /\ playPc' = "resume"
                   /\ playLog' = [NoPlay EXCEPT !.outcome = "pending"]
                   /\ repeatTimers' = {}
              ELSE DesktopTail(NoPlay, state, directOk)
    /\ UNCHANGED << mounted, autoRefresh, minMagnitude, pollerVars, language,
                    permVars, detectorVars, presenceVars, bridgeVars, normVars, extVars,
                    isMobile, audioContextResumed, actPc, actOutcome >>

(* a resume() awaited at line 234 or 241 settles; a rejection returns *)
PlayResumeDesktop(result, directOk) ==
    /\ ~isMobile
    /\ playPc \in {"resume", "resume2"}
    /\ sharedAudioContext' = AfterResume(sharedAudioContext, result)
    /\ audioContextResumed' =
          IF playPc = "resume" /\ result # "reject" THEN TRUE ELSE audioContextResumed
    /\ IF result = "reject"
       THEN /\ playLog' = Ended(playLog, FALSE)
            /\ playPc' = "idle"
            /\ repeatTimers' = {}
       ELSE IF playPc = "resume" /\ sharedAudioContext' = "suspended"
       THEN /\ playPc' = "resume2"
            /\ UNCHANGED << playLog, repeatTimers >>
       ELSE DesktopTail(playLog, sharedAudioContext', directOk)
    /\ UNCHANGED << mounted, autoRefresh, minMagnitude, pollerVars, language,
                    permVars, detectorVars, presenceVars, bridgeVars, normVars, extVars,
                    isMobile, contextsConstructed, actPc, actOutcome >>

(* the earlier of the pending setTimeout callbacks of a desktop play runs *)
RepeatFires ==
    /\ repeatTimers # {}
    /\ LET t == CHOOSE x \in repeatTimers : \A y \in repeatTimers : x <= y
       IN  repeatTimers' = repeatTimers \ {t}
    /\ playLog' = [playLog EXCEPT
                      !.starts = IF RepeatStarts(sharedAudioContext) THEN @ + 1 ELSE @]
    /\ UNCHANGED << mounted, autoRefresh, minMagnitude, pollerVars, language,
                    permVars, detectorVars, presenceVars, bridgeVars, normVars, extVars,
                    isMobile, sharedAudioContext, audioContextResumed,
                    contextsConstructed, playPc, actPc, actOutcome >>

(* the browser suspends the running context (tab hidden, audio interrupted) *)
ContextInterrupted ==
    /\ sharedAudioContext = "running"
    /\ sharedAudioContext' = "suspended"
    /\ UNCHANGED << mounted, autoRefresh, minMagnitude, pollerVars, language,
                    permVars, detectorVars, presenceVars, bridgeVars, normVars, extVars,
                    isMobile, audioContextResumed, contextsConstructed, playVars,
                    actPc, actOutcome >>

(* activateAudioContext is called (a user gesture, the disclaimer's accept  *)
(* button, the sound controls): up to its first await                       *)
Activate(ctorOk, initial) ==
    /\ actPc = "idle"
    /\ LET construct == sharedAudioContext = "null"
           threw     == construct /\ ~ctorOk
           state     == IF construct /\ ctorOk THEN initial ELSE sharedAudioContext
       IN  /\ sharedAudioContext' = state
           /\ contextsConstructed' = IF construct /\ ctorOk
                                     THEN Count(contextsConstructed + 1)
                                     ELSE contextsConstructed
           /\ IF threw
              THEN /\ actOutcome' = IF ActivateEscapes(TRUE) THEN "rejected" ELSE "resolved"
                   /\ UNCHANGED << actPc, audioContextResumed >>
              ELSE IF state = "suspended"
              THEN /\ actPc' = "resume"
                   /\ actOutcome' = "pending"
                   /\ UNCHANGED audioContextResumed
              ELSE /\ audioContextResumed' = TRUE
                   /\ actOutcome' = "resolved"
                   /\ UNCHANGED actPc
    /\ UNCHANGED << mounted, autoRefresh, minMagnitude, pollerVars, language,
                    permVars, detectorVars, presenceVars, bridgeVars, normVars, extVars,
                    isMobile, playVars >>

(* a resume() awaited at line 29 or 36 settles *)
ActivateResumeSettles(result) ==
    /\ actPc \in {"resume", "resume2"}
    /\ sharedAudioContext' = AfterResume(sharedAudioContext, result)
    /\ audioContextResumed' =
          IF actPc = "resume" /\ result # "reject" THEN TRUE ELSE audioContextResumed
    /\ IF result = "reject"
       THEN /\ actOutcome' = IF ActivateEscapes(TRUE) THEN "rejected" ELSE "resolved"
            /\ actPc' = "idle"
       ELSE IF actPc = "resume" /\ isMobile /\ sharedAudioContext' = "suspended"
       THEN /\ actPc' = "resume2"
            /\ UNCHANGED actOutcome
       ELSE /\ actOutcome' = "resolved"
            /\ actPc' = "idle"
    /\ UNCHANGED << mounted, autoRefresh, minMagnitude, pollerVars, language,
                    permVars, detectorVars, presenceVars, bridgeVars, normVars, extVars,
                    isMobile, contextsConstructed, playVars >>

------------------------------------------------------------------------------
(* EventNormalizer on its own: the filter and the map applied to a response *)
(* whose features are any sequence of the feed records and of records that  *)
(* lack the properties block (a null feature lacks both blocks).            *)

MalformedFeatures == <<
    [fid |-> "eq6", props |-> FALSE, geom |-> TRUE,  mag |-> 0,  place |-> "",
     hasTime |-> FALSE, time |-> 0, lon |-> 35, lat |-> 32, depth |-> 5],
    [fid |-> "",    props |-> FALSE, geom |-> FALSE, mag |-> 0,  place |-> "",
     hasTime |-> FALSE, time |-> 0, lon |-> 0,  lat |-> 0,  depth |-> 0]
>>

Records ==
    { RawFeatures[i] : i \in 1..Len(RawFeatures) }
       \cup { MalformedFeatures[i] : i \in 1..Len(MalformedFeatures) }

Responses == UNION { [1..n -> Records] : n \in 0..MaxBatchLen }

(* the map callback reads feature.properties.mag and                        *)
(* feature.geometry.coordinates[0]: a TypeError when a block is missing     *)
MapThrows(f) == ~f.props \/ ~f.geom

(* the filter and the map run on data.features = fs; a throw reaches the    *)
(* catch of fetchEarthquakesFn and no output is produced.  One response is  *)
(* followed per behaviour: the two stages keep no state between responses.  *)
NormalizeResponse(fs, now) ==
    /\ normNow = 0
    /\ rawBatch' = fs
    /\ normNow' = now
    /\ normThrew' = \E i \in 1..Len(fs) : IsWellFormed(fs[i]) /\ MapThrows(fs[i])
    /\ normalized' = IF normThrew' THEN normalized ELSE MapNormalize(fs, now)
    /\ UNCHANGED << mounted, autoRefresh, minMagnitude, pollerVars, language,
                    permVars, detectorVars, presenceVars, bridgeVars, audioVars,
                    extVars >>

------------------------------------------------------------------------------
(* GeoFilter on its own: the haversine test of the filter callback, with    *)
(* the centre and the radius as arguments.  Points are << lat, lon >>.      *)

Points == { << 31, 35 >>, << 32, 35 >>, << 38, 38 >>, << 34, 36 >>, << 31, 60 >> }

Radii == { 0, 110, 111, 112, 346, 825, 1500, 2377 }

(* R * c of the filter callback for the points above, in whole km *)
Haversine(c, p) ==
    LET a == IF c[1] < p[1] \/ (c[1] = p[1] /\ c[2] <= p[2]) THEN c ELSE p
        b == IF a = c THEN p ELSE c
    IN  CASE a = b -> 0
          [] a = << 31, 35 >> /\ b = << 32, 35 >> -> 111
          [] a = << 31, 35 >> /\ b = << 38, 38 >> -> 825
          [] a = << 31, 35 >> /\ b = << 34, 36 >> -> 346
          [] a = << 31, 35 >> /\ b = << 31, 60 >> -> 2377
          [] a = << 32, 35 >> /\ b = << 38, 38 >> -> 720
          [] a = << 32, 35 >> /\ b = << 34, 36 >> -> 240
          [] a = << 31, 60 >> /\ b = << 32, 35 >> -> 2367
          [] a = << 34, 36 >> /\ b = << 38, 38 >> -> 480
          [] a = << 31, 60 >> /\ b = << 38, 38 >> -> 2154
          [] a = << 31, 60 >> /\ b = << 34, 36 >> -> 2270

(* a test that leaves the boundary out *)
StrictlyWithin(c, p, r) == Haversine(c, p) < r

(* distance <= radiusKm *)
WithinRadius(c, p, r) == Haversine(c, p) <= r

(* the test is applied once per behaviour: it keeps no state *)
TestRadius(c, p, r) ==
    /\ geoRadius = -1
    /\ geoCenter' = c
    /\ geoPoint' = p
    /\ geoRadius' = r
    /\ geoWithin' = WithinRadius(c, p, r)
    /\ geoSwapped' = WithinRadius(p, c, r)
    /\ UNCHANGED << mounted, autoRefresh, minMagnitude, pollerVars, language,
                    permVars, detectorVars, presenceVars, bridgeVars, audioVars,
                    normVars, orderVars, adminVars, alertVars >>

------------------------------------------------------------------------------
(* The life of an alert on screen *)

TickSeconds == AutoCloseSeconds \div 3     \* time passes in steps of this length
MaxAlertAge == 20       \* ages are followed up to here

AlertFrame ==
    UNCHANGED << mounted, autoRefresh, minMagnitude, pollerVars, language,
                 permVars, detectorVars, presenceVars, bridgeVars, audioVars,
                 normVars, orderVars, restVars, surfaceThrows, raised >>

(* time passes; a timer that is due fires before more time passes *)
AlertTick ==
    /\ openAlerts # {}
    /\ \A a \in openAlerts :
          /\ a.age < MaxAlertAge
          /\ a.timer => a.age + TickSeconds <= AutoCloseSeconds
    /\ openAlerts' = { [a EXCEPT !.age = a.age + TickSeconds] : a \in openAlerts }
    /\ UNCHANGED lastClose
    /\ AlertFrame

(* the setTimeout callback: notification.close() *)
AutoClose(a) ==
    /\ a \in openAlerts
    /\ a.timer
    /\ a.age = AutoCloseSeconds
    /\ openAlerts' = openAlerts \ {a}
    /\ lastClose' = [source |-> a.source, tag |-> a.tag, by |-> "timer", focused |-> FALSE]
    /\ AlertFrame

(* notification.onclick: window.focus(); notification.close() *)
ClickAlert(a) ==
    /\ a \in openAlerts
    /\ openAlerts' = openAlerts \ {a}
    /\ lastClose' = [source |-> a.source, tag |-> a.tag, by |-> "click", focused |-> TRUE]
    /\ AlertFrame

(* without requireInteraction the platform takes the alert away when it    *)
(* chooses to                                                              *)
PlatformDismiss(a) ==
    /\ a \in openAlerts
    /\ ~a.requireInteraction
    /\ openAlerts' = openAlerts \ {a}
    /\ lastClose' = [source |-> a.source, tag |-> a.tag, by |-> "platform", focused |-> FALSE]
    /\ AlertFrame

------------------------------------------------------------------------------
(* The operator counter of AdminDashboard: a listener on the sessions      *)
(* collection                                                              *)

FiveMinutes == 5

AdminNows == {7, 8, 10}     \* Date.now() when a snapshot is evaluated

(* a counter that takes every record present *)
CountPresent(store, now) == Cardinality(store)

(* Object.values(sessions).filter(...).length *)
ActiveCount(store, now) ==
    Cardinality({ s \in store : s.last_seen # 0 /\ s.last_seen >= now - FiveMinutes })

(* a snapshot of the collection reaches the listener *)
SessionsSnapshot(now) ==
    /\ now >= adminNow
    /\ adminNow' = now
    /\ adminSeen' = sessions
    /\ activeDevices' = IF sessions = {} THEN 0 ELSE ActiveCount(sessions, now)
    /\ UNCHANGED << mounted, autoRefresh, minMagnitude, pollerVars, language,
                    permVars, detectorVars, presenceVars, bridgeVars, audioVars,
                    normVars, orderVars, geoVars, alertVars >>

(* the listener's error callback: setActiveDevices(0) *)
SessionsError ==
    /\ adminNow' = 0
    /\ adminSeen' = {}
    /\ activeDevices' = 0
    /\ UNCHANGED << mounted, autoRefresh, minMagnitude, pollerVars, language,
                    permVars, detectorVars, presenceVars, bridgeVars, audioVars,
                    normVars, orderVars, geoVars, alertVars >>

------------------------------------------------------------------------------
(* Teardown: the component unmounts; React runs the cleanups the effects   *)
(* returned.  The auto-refresh effect returned clearInterval; the          *)
(* registerSession effect returned nothing; the subscription effects       *)
(* returned their cleanups (no new effect run follows: en is FALSE).       *)
ClearedOnUnmount(timer) == timer

Unmount ==
    /\ mounted
    /\ mounted' = FALSE
    /\ pollTimer' = FALSE
    /\ heartbeatTimer' = ClearedOnUnmount(heartbeatTimer)
    /\ FirebaseEffectPass(FALSE)
    /\ SupabaseEffectPass(FALSE)
    /\ UNCHANGED << autoRefresh, minMagnitude, earthquakes, loading, error,
                    inflight, language, permVars, detectorVars, registration,
                    sessions, heartbeatError, enabled, notifications, rows,
                    dropped, lastCallback, audioVars, normVars, extVars >>

------------------------------------------------------------------------------
(* The state right after the component mounted and its effects ran once,   *)
(* on a platform whose user agent test gave `mobile`                        *)
Mounted(mobile, store, throws) ==
    /\ mounted = TRUE
    /\ autoRefresh = TRUE
    /\ minMagnitude = LiveMinMagnitude
    /\ earthquakes = << >>
    /\ loading = TRUE
    /\ error = ""
    /\ inflight = 1
    /\ pollTimer = TRUE
    /\ language \in Languages
    /\ browserPermission \in Permissions
    /\ notificationPermissionRef =
          IF browserPermission = "default" THEN "null" ELSE browserPermission
    /\ hookRequestPending = (browserPermission = "default")
    /\ testRequestPending = FALSE
    /\ previousEarthquakesRef = {}
    /\ registration = "writing"
    /\ heartbeatTimer = FALSE
    /\ sessions = store
    /\ heartbeatError = FALSE
    /\ lastDelta = {}
    /\ lastAlerted = {}
    /\ lastSounded = {}
    /\ alertCount = [i \in AllIds |-> 0]
    /\ allPolled = {}
    /\ enabled = TRUE
    /\ notifications = << >>
    /\ fbSubscriptionRef = TRUE
    /\ fbListeners = 1
    /\ fbInitialPending = TRUE
    /\ rows = {}
    /\ sbSubscriptionRef = TRUE
    /\ sbChannels = 1
    /\ sbLastStatus = "SUBSCRIBED"
    /\ dropped = {}
    /\ lastCallback = [bridge |-> "none", id |-> "", tag |-> "", viewer |-> "",
                       handled |-> 0, alerted |-> FALSE, sounded |-> FALSE,
                       wasDropped |-> FALSE, wasRaised |-> FALSE, live |-> TRUE]
    /\ isMobile = mobile
    /\ sharedAudioContext = "null"
    /\ audioContextResumed = FALSE
    /\ contextsConstructed = 0
    /\ playPc = "idle"
    /\ playLog = NoPlay
    /\ repeatTimers = {}
    /\ actPc = "idle"
    /\ actOutcome = "none"
    /\ rawBatch = << >>
    /\ normNow = 0
    /\ normalized = << >>
    /\ normThrew = FALSE
    /\ geoCenter = << 31, 35 >>
    /\ geoPoint = << 31, 35 >>
    /\ geoRadius = -1
    /\ geoWithin = FALSE
    /\ geoSwapped = FALSE
    /\ timeRange = "24h"
    /\ pending = << [range |-> "24h", floor |-> LiveMinMagnitude, older |-> FALSE] >>
    /\ held = NoPoll
    /\ activeDevices = 0
    /\ adminNow = 0
    /\ adminSeen = {}
    /\ surfaceThrows = throws
    /\ openAlerts = {}
    /\ lastClose = NoClose
    /\ raised = {}

(* a desktop viewer *)
Init == Mounted(FALSE, {}, {})

(* the feed poller, the change detector and the dispatcher *)
Next ==
    \/ IntervalTick
    \/ Refetch
    \/ SetAutoRefresh
    \/ \E kind \in FailureKinds : FetchFailed(kind)
    \/ FetchInvalid
    \/ \E batch \in Batches, now \in NowValues : FetchSucceeded(batch, now)
    \/ \E l \in Languages : SetLanguage(l)
    \/ \E p \in Permissions : RespondPrompt(p)
    \/ TestNotification
    \/ Unmount

Spec == Init /\ [][Next]_vars

(* the interval loops and teardown: the feed poller and the presence        *)
(* registry, with a feed that carries the first two records only           *)
LifecycleBatches == SUBSET (1..2)

NextLifecycle ==
    \/ IntervalTick
    \/ Refetch
    \/ SetAutoRefresh
    \/ \E kind \in FailureKinds : FetchFailed(kind)
    \/ FetchInvalid
    \/ \E batch \in LifecycleBatches, now \in NowValues : FetchSucceeded(batch, now)
    \/ RegisterSucceeded
    \/ RegisterFailed
    \/ \E ok \in BOOLEAN : HeartbeatTick(ok)
    \/ Unmount

SpecLifecycle == Init /\ [][NextLifecycle]_vars

(* the realtime bridge: both subscription hooks, their channel events and   *)
(* their lifecycle passes                                                   *)
NextBridge ==
    \/ \E en \in BOOLEAN : SetEnabled(en)
    \/ \E m \in Messages : FirebasePush(m)
    \/ FirebaseInitialSnapshot
    \/ FirebaseError
    \/ \E m \in Messages : SupabaseInsert(m)
    \/ \E status \in ChannelStatuses : ChannelStatus(status)
    \/ \E l \in Languages : SetLanguage(l)
    \/ Unmount

SpecBridge == Init /\ [][NextBridge]_vars

(* the audio engine on either platform, with every failure of device       *)
(* construction, resume, direct playback and media-element playback        *)
InitAudio == \E mobile \in BOOLEAN : Mounted(mobile, {}, {})

NextAudio ==
    \/ \E ctorOk \in BOOLEAN, initial \in ContextStates,
          directOk \in BOOLEAN, fallbackCtorOk \in BOOLEAN :
          PlayMobile(ctorOk, initial, directOk, fallbackCtorOk)
    \/ \E result \in ResumeResults, directOk \in BOOLEAN, fallbackCtorOk \in BOOLEAN :
          PlayResumeMobile(result, directOk, fallbackCtorOk)
    \/ \E ok \in BOOLEAN : Html5Settles(ok)
    \/ \E ctorOk \in BOOLEAN, initial \in ContextStates, directOk \in BOOLEAN :
          PlayDesktop(ctorOk, initial, directOk)
    \/ \E result \in ResumeResults, directOk \in BOOLEAN :
          PlayResumeDesktop(result, directOk)
    \/ RepeatFires
    \/ ContextInterrupted
    \/ \E ctorOk \in BOOLEAN, initial \in ContextStates : Activate(ctorOk, initial)
    \/ \E result \in ResumeResults : ActivateResumeSettles(result)

SpecAudio == InitAudio /\ [][NextAudio]_vars

(* the normaliser applied to every response of up to MaxBatchLen records *)
NextNormalizer ==
    \E fs \in Responses, now \in NowValues : NormalizeResponse(fs, now)

SpecNormalizer == Init /\ [][NextNormalizer]_vars

(* overlapping fetches: the interval, the manual refresh and changes of     *)
(* the hook's options while responses are outstanding; the feed carries    *)
(* records whose feed order is not their time order                        *)
OverlapBatches == { {1, 2}, {2, 5} }

MagnitudeFloors == { LiveMinMagnitude, DefaultMinMagnitude }

NextOverlap ==
    \/ IntervalTick
    \/ Refetch
    \/ SetAutoRefresh
    \/ \E r \in TimeRanges : SetTimeRange(r)
    \/ \E floor \in MagnitudeFloors : SetMinMagnitude(floor)
    \/ \E kind \in FailureKinds : FetchFailed(kind)
    \/ FetchInvalid
    \/ \E batch \in OverlapBatches, now \in NowValues : FetchSucceeded(batch, now)

InitOverlap == Init /\ language = "en" /\ browserPermission = "granted"

SpecOverlap == InitOverlap /\ [][NextOverlap]_vars

(* the presence registry of this session, the records of other sessions   *)
(* in the same collection, and the operator counter that listens to it     *)
InitPresence == \E store \in SUBSET OtherSessions : Mounted(FALSE, store, {})

NextPresence ==
    \/ RegisterSucceeded
    \/ RegisterFailed
    \/ \E ok \in BOOLEAN : HeartbeatTick(ok)
    \/ \E now \in AdminNows : SessionsSnapshot(now)
    \/ SessionsError
    \/ Unmount

SpecPresence == InitPresence /\ [][NextPresence]_vars

(* the alert surface: local alerts of polls, the clock, the timers and the *)
(* user's clicks, on a platform whose Notification constructor may throw   *)
(* for some tags                                                           *)
AlertBatches == { {1, 2, 3}, {2} }

ThrowingTags == { "eq1", "quake-3-36-34" }

InitAlerts ==
    /\ \E throws \in SUBSET ThrowingTags : Mounted(FALSE, {}, throws)
    /\ language = "en"
    /\ browserPermission = "granted"

NextAlerts ==
    \/ IntervalTick
    \/ \E batch \in AlertBatches, now \in NowValues : FetchSucceeded(batch, now)
    \/ AlertTick
    \/ \E a \in openAlerts : AutoClose(a)
    \/ \E a \in openAlerts : ClickAlert(a)

SpecAlerts == InitAlerts /\ [][NextAlerts]_vars

(* broadcast alerts of both bridges on screen, for a viewer who granted    *)
(* the permission                                                          *)
InitBroadcast == Init /\ language = "en" /\ browserPermission = "granted"

NextBroadcast ==
    \/ \E m \in Messages : FirebasePush(m)
    \/ FirebaseInitialSnapshot
    \/ \E m \in Messages : SupabaseInsert(m)
    \/ AlertTick
    \/ \E a \in openAlerts : AutoClose(a)
    \/ \E a \in openAlerts : ClickAlert(a)
    \/ \E a \in openAlerts : PlatformDismiss(a)

SpecBroadcast == InitBroadcast /\ [][NextBroadcast]_vars

(* the viewer's language changes while the subscriptions made at mount    *)
(* stay as they are: no lifecycle pass, no channel closure                 *)
NextLanguage ==
    \/ \E l \in Languages : SetLanguage(l)
    \/ \E m \in Messages : FirebasePush(m)
    \/ FirebaseInitialSnapshot
    \/ \E m \in Messages : SupabaseInsert(m)

SpecLanguage == Init /\ [][NextLanguage]_vars

(* the region test applied to every centre, point and radius *)
NextGeo ==
    \E c \in Points, p \in Points, r \in Radii : TestRadius(c, p, r)

SpecGeo == Init /\ [][NextGeo]_vars

------------------------------------------------------------------------------
(* Steps named by the properties below *)

(* a poll result reaches the mounted hooks *)
PollDelivered ==
    mounted /\ \E batch \in Batches, now \in NowValues : FetchSucceeded(batch, now)

(* a poll ends in the catch branch of the mounted hook *)
PollFailed == mounted /\ \E kind \in FailureKinds : FetchFailed(kind)

(* a poll ends on a response without a features array *)
PollInvalid == mounted /\ FetchInvalid

UrgentIds(list) == Ids(SelectSeq(list, IsUrgent))

------------------------------------------------------------------------------
(* C1: over any sequence of polls in one viewer session, an alert is raised *)
(* for a given event identifier at most once.                               *)
C1_AlertAtMostOncePerId == \A i \in AllIds : alertCount[i] <= 1

(* C2: whenever the detector processes a poll, the updated SeenSet is the   *)
(* union of the old SeenSet and the poll's identifiers, so an identifier    *)
(* that was seen, was omitted and reappears is not in the delta.            *)
C2_SeenSetIsUnion ==
    [][ (PollDelivered /\ EffectProceeds(earthquakes', notificationPermissionRef))
        => /\ previousEarthquakesRef' = previousEarthquakesRef \cup Ids(earthquakes')
           /\ lastDelta' \cap allPolled = {} ]_vars

(* C3: SeenSet is empty at pipeline start and no step ever removes an       *)
(* identifier from it.                                                      *)
C3_SeenSetNeverShrinks ==
    /\ previousEarthquakesRef = {}
    /\ [][ previousEarthquakesRef \subseteq previousEarthquakesRef' ]_vars

(* C4: when a poll delivers the same batch as the poll before it (the same  *)
(* normalised result set, synthetic identifiers included), the delta of     *)
(* the second run is empty.                                                 *)
C4_SecondRunHasEmptyDelta ==
    [][ (PollDelivered /\ earthquakes # << >> /\ earthquakes' = earthquakes)
        => lastDelta' = {} ]_vars

(* C5: for every poll the detector processes, the delta is exactly the set  *)
(* of the poll's identifiers that appear in no prior poll's identifier set. *)
C5_DeltaIsFirstAppearances ==
    [][ (PollDelivered /\ EffectProceeds(earthquakes', notificationPermissionRef))
        => lastDelta' = Ids(earthquakes') \ allPolled ]_vars

(* C6: after every poll result delivered to the detector, in whatever       *)
(* permission state, SeenSet contains every identifier of that result set.  *)
C6_SeenSetHoldsCurrentPoll == Ids(earthquakes) \subseteq previousEarthquakesRef

(* C7: on every poll, the alert surface and the audio engine are invoked    *)
(* for exactly the delta events with magnitude above 4.5 when the alert     *)
(* permission is granted, and for none otherwise.                           *)
C7_AlertIffUrgentAndGranted ==
    [][ PollDelivered =>
          LET due == IF browserPermission = "granted"
                     THEN UrgentIds(NewEarthquakes(earthquakes', previousEarthquakesRef))
                     ELSE {}
          IN  lastAlerted' = due /\ lastSounded' = due ]_vars

C9_LoopsSurviveFailure ==
    [][ /\ (PollFailed /\ autoRefresh)
            => (pollTimer' /\ inflight' = inflight - 1 /\ inflight' < MaxInflight)
        /\ HeartbeatTick(FALSE) => (heartbeatTimer' /\ sessions' = sessions) ]_vars

(* both loops are armed after a failed poll and a failed heartbeat write *)
C9_Witness ==
    /\ mounted /\ autoRefresh /\ error # "" /\ pollTimer
    /\ heartbeatError /\ heartbeatTimer

(* C10: after teardown no feed poller tick starts a poll and no heartbeat   *)
(* tick writes to the shared store.                                         *)
C10_NoTickAfterTeardown ==
    [][ ~mounted => ~(IntervalTick \/ \E ok \in BOOLEAN : HeartbeatTick(ok)) ]_vars

------------------------------------------------------------------------------
(* Steps of the realtime bridge named by the properties below *)

(* a broadcast reaches a listener of the Firebase hook *)
FirebaseReceived(m) == fbListeners > 0 /\ FirebasePush(m)

(* a broadcast reaches a channel of the Supabase hook *)
SupabaseReceived(m) == sbChannels > 0 /\ SupabaseInsert(m)

Granted == browserPermission = "granted"

(* C11: after teardown (the component unmounted or the hooks disabled) no   *)
(* realtime subscription is left, the 'already subscribed' guards are       *)
(* cleared, and no broadcast callback runs.                                 *)
C11_TeardownReleasesSubscription ==
    /\ ~(mounted /\ enabled) =>
          /\ fbListeners = 0 /\ ~fbSubscriptionRef
          /\ sbChannels = 0 /\ ~sbSubscriptionRef
    /\ lastCallback.handled > 0 => lastCallback.live

(* C12: a handler raises the alert surface or the audio engine only for a   *)
(* message tagged "all" or with the viewer's language, and never for a      *)
(* message that a handler dropped earlier at the language check.            *)
C12_MismatchNeverDelivered ==
    (lastCallback.alerted \/ lastCallback.sounded) =>
        /\ lastCallback.tag \in {"all", lastCallback.viewer}
        /\ ~lastCallback.wasDropped

(* C13 as written: a message tagged "all" that reaches a subscribed viewer  *)
(* always raises both the alert surface and the audio engine, and a message *)
(* tagged "ru" that reaches a viewer configured for "en" raises neither.    *)
C13_AllAlwaysTriggersBoth ==
    [][ \A m \in Messages :
          (FirebaseReceived(m) \/ SupabaseReceived(m)) =>
             /\ m.language = "all" => (lastCallback'.alerted /\ lastCallback'.sounded)
             /\ (m.language = "ru" /\ language = "en")
                   => (~lastCallback'.alerted /\ ~lastCallback'.sounded) ]_vars

(* C13 amended: a message tagged "all" that reaches a subscribed viewer     *)
(* raises the alert surface exactly when Notification.permission is         *)
(* granted, whatever the viewer's language, and the audio engine exactly    *)
(* when it raises the alert surface and, on the Firebase bridge, the        *)
(* message's sound flag is not false; a message tagged "ru" that reaches a  *)
(* viewer configured for "en" raises neither.                               *)
C13_AllTriggersWhenGranted ==
    [][ \A m \in Messages :
          /\ (FirebaseReceived(m) /\ m.language = "all") =>
                /\ lastCallback'.alerted = Granted
                /\ lastCallback'.sounded = (Granted /\ m.sound)
          /\ (SupabaseReceived(m) /\ m.language = "all") =>
                /\ lastCallback'.alerted = Granted
                /\ lastCallback'.sounded = Granted
          /\ ((FirebaseReceived(m) \/ SupabaseReceived(m))
                /\ m.language = "ru" /\ language = "en")
                => (~lastCallback'.alerted /\ ~lastCallback'.sounded) ]_vars

(* a viewer configured for "ru" was alerted, with sound, by an "all" message *)
C13_Witness ==
    /\ lastCallback.handled > 0 /\ lastCallback.tag = "all"
    /\ lastCallback.viewer = "ru" /\ lastCallback.alerted /\ lastCallback.sounded

(* C14: at every moment each hook holds at most one active subscription,    *)
(* a lifecycle pass made while one is active adds none, and every channel   *)
(* event runs the handler at most once.                                     *)
C14_AtMostOneSubscription ==
    /\ fbListeners <= 1
    /\ sbChannels <= 1
    /\ lastCallback.handled <= 1

(* the hooks were disabled and enabled again while the channel stayed open: *)
(* a broadcast was handled while disabled, and one channel is active now    *)
C14_Witness ==
    /\ mounted /\ enabled
    /\ lastCallback.bridge = "supabase" /\ lastCallback.handled = 1
    /\ ~lastCallback.live
    /\ sbSubscriptionRef /\ sbChannels = 1 /\ fbListeners = 1

(* C15: when the channel reports a closure or a timeout the 'already        *)
(* subscribed' guard is reset and no subscription is created by that        *)
(* report; the next lifecycle pass that enables the hook then creates a     *)
(* new subscription.                                                        *)
C15_GuardResetOnClosureOrTimeout ==
    [][ /\ (ChannelStatus("CLOSED") \/ ChannelStatus("TIMED_OUT"))
            => (~sbSubscriptionRef' /\ sbChannels' <= sbChannels)
        /\ FirebaseError => fbListeners' < fbListeners
        /\ (SetEnabled(TRUE) /\ sbLastStatus \in {"CLOSED", "TIMED_OUT"})
            => sbLastStatus' = "SUBSCRIBED"
        /\ (SetEnabled(TRUE) /\ fbListeners = 0) => fbListeners' = 1 ]_vars

------------------------------------------------------------------------------
(* Steps of the audio engine named by the properties below *)

(* a step of a playAlertSound call on a desktop platform *)
PlayStepDesktop ==
    \/ \E ctorOk \in BOOLEAN, initial \in ContextStates, directOk \in BOOLEAN :
          PlayDesktop(ctorOk, initial, directOk)
    \/ \E result \in ResumeResults, directOk \in BOOLEAN :
          PlayResumeDesktop(result, directOk)

(* a playAlertSound call has returned *)
PlayReturned == playPc = "idle" /\ playLog.outcome # "none"

C17_FallbackIffDirectFailed ==
    PlayReturned => (playLog.html5Entered <=> ~playLog.directStarted)

(* C17 amended: on a constrained platform a play that has returned entered  *)
(* the media-element path if and only if its direct playback did not start, *)
(* and the audio element played only inside that path; on a desktop         *)
(* platform no play enters the media-element path.                          *)
C17_FallbackOnMobileOnly ==
    /\ (isMobile /\ PlayReturned) => (playLog.html5Entered <=> ~playLog.directStarted)
    /\ playLog.html5Played => (playLog.html5Entered /\ ~playLog.directStarted)
    /\ playPc = "html5" => (playLog.html5Entered /\ ~playLog.directStarted)
    /\ ~isMobile => (~playLog.html5Entered /\ playPc # "html5")

(* a constrained platform: direct playback did not start, the audio element did *)
C17_Witness ==
    isMobile /\ PlayReturned /\ ~playLog.directStarted /\ playLog.html5Played

(* C18: on a desktop platform a play whose direct playback started leaves   *)
(* exactly the 600 ms and 1200 ms timers, they run in that order, and each  *)
(* starts the tone once if and only if the device is running then; on a     *)
(* constrained platform a play starts the tone at most once and leaves no   *)
(* timer.                                                                   *)
C18_RepeatsOnDesktopOnly ==
    /\ [](isMobile => (playLog.starts <= 1 /\ repeatTimers = {}))
    /\ [](repeatTimers \in {{}, {1200}, RepeatOffsets})
    /\ [](playLog.starts <= 3)
    /\ [][ /\ (PlayStepDesktop /\ playPc' = "idle")
               => repeatTimers' = IF playLog'.directStarted THEN RepeatOffsets ELSE {}
           /\ RepeatFires =>
                 /\ Cardinality(repeatTimers') = Cardinality(repeatTimers) - 1
                 /\ playLog'.starts = playLog.starts +
                       (IF sharedAudioContext = "running" THEN 1 ELSE 0) ]_vars

(* a desktop play and both of its repetitions have started the tone *)
C18_Witness == ~isMobile /\ playLog.starts = 3 /\ repeatTimers = {}

(* C19: at most one AudioContext is ever constructed, and the shared handle *)
(* is never reset to the unconstructed state.                               *)
C19_SingleDeviceHandle ==
    /\ [](contextsConstructed <= 1)
    /\ [][ sharedAudioContext # "null" => sharedAudioContext' # "null" ]_vars

(* C20: the normalised output holds, in feed order, exactly one Earthquake  *)
(* for every record that has both the properties block and the geometry     *)
(* coordinates and none for any other record, nothing is thrown, and a      *)
(* missing magnitude, place or time is replaced by 0, "Unknown" and the     *)
(* current time instead of rejecting the record.                            *)
C20_NormalizedKeepsWellFormed ==
    LET idx    == { i \in 1..Len(rawBatch) : rawBatch[i].props /\ rawBatch[i].geom }
        Pos(i) == Cardinality({ j \in idx : j <= i })
    IN  /\ ~normThrew
        /\ Len(normalized) = Cardinality(idx)
        /\ \A i \in idx :
              LET f == rawBatch[i]
                  q == normalized[Pos(i)]
              IN  /\ q.latitude = f.lat /\ q.longitude = f.lon
                  /\ q.magnitude = f.mag
                  /\ q.place = (IF f.place = "" THEN "Unknown" ELSE f.place)
                  /\ q.time = (IF f.hasTime /\ f.time # 0 THEN f.time ELSE normNow)

(* a response with a record without geometry, a record without magnitude    *)
(* and time, and a record without place: the first is left out, the others  *)
(* are kept with their defaults                                             *)
C20_Witness ==
    /\ Len(rawBatch) = 3 /\ Len(normalized) = 2
    /\ \E i \in 1..3 : rawBatch[i].props /\ ~rawBatch[i].geom
    /\ \E k \in 1..2 : normalized[k].magnitude = 0 /\ normalized[k].time = normNow
    /\ \E k \in 1..2 : normalized[k].place = "Unknown"

C22_SortedByTimeDescending ==
    \A i \in 1..(Len(earthquakes) - 1) : earthquakes[i].time >= earthquakes[i + 1].time

(* a query API poll delivered records that the feed listed oldest first *)
C22_Witness ==
    /\ held.floor = DefaultMinMagnitude
    /\ Len(earthquakes) = 2
    /\ earthquakes[1].id = "eq5"

(* a realtime feed poll delivered two records *)
C22_WitnessFeed ==
    /\ held.floor = LiveMinMagnitude
    /\ Len(earthquakes) = 2

(* C28: when polls overlap, the response of a poll that started earlier     *)
(* never replaces the result set of a poll that started later; and once     *)
(* every poll in flight has settled without a failure, the held result set  *)
(* is the one of the poll started last, under the current time window and   *)
(* magnitude floor.                                                         *)
C28_LaterPollWins ==
    /\ ~held.stale
    /\ (inflight = 0 /\ error = "" /\ held.range # "")
          => (held.range = timeRange /\ held.floor = minMagnitude)

(* C23: a heartbeat tick changes only the last-heartbeat timestamp of the   *)
(* session's own record: its session id, user agent and notification        *)
(* permission, and the record of every other session, stay as they were.    *)
C23_HeartbeatTouchesOnlyTimestamp ==
    [][ (\E ok \in BOOLEAN : HeartbeatTick(ok)) =>
          /\ \A s \in sessions : s.session_id # SessionId => s \in sessions'
          /\ \A s \in sessions : s.session_id = SessionId =>
                \E t \in sessions' :
                    /\ t.session_id = s.session_id
                    /\ t.user_agent = s.user_agent
                    /\ t.notification_permission = s.notification_permission
          /\ Cardinality(sessions') = Cardinality(sessions) ]_vars

(* the own record has had a heartbeat, next to two records of other sessions *)
C23_Witness ==
    /\ Cardinality(sessions) = 3
    /\ \E s \in sessions : s.session_id = SessionId /\ s.last_seen > FirstSeen

(* C24: at every snapshot of the session collection the operator count is   *)
(* the number of session records whose last heartbeat is not older than     *)
(* five minutes before the evaluation time; older records are present but   *)
(* not counted, and no step of the registry or of the counter removes a     *)
(* session record.                                                          *)
C24_CountsRecentSessions ==
    /\ [](adminNow # 0 =>
            activeDevices =
                Cardinality({ s \in adminSeen : ~(s.last_seen < adminNow - FiveMinutes) }))
    /\ [][ \A s \in sessions : \E t \in sessions' : t.session_id = s.session_id ]_vars

(* a snapshot with three records: two are counted, one of them exactly     *)
(* five minutes old, and the third, older, is present but not counted      *)
C24_Witness ==
    /\ adminNow = 7
    /\ Cardinality(adminSeen) = 3
    /\ activeDevices = 2
    /\ \E s \in adminSeen : s.last_seen = adminNow - FiveMinutes

(* a poll of the alert surface specification is delivered *)
AlertPollDelivered ==
    mounted /\ \E batch \in AlertBatches, now \in NowValues : FetchSucceeded(batch, now)

(* C25: every local urgent-event alert is closed no later than 15 s after   *)
(* it was raised: by the user's click, which also brings the application    *)
(* to the foreground, or by the auto-dismiss timer.                         *)
C25_LocalAlertClosedWithin15s ==
    /\ [](\A a \in openAlerts : a.source = "local" => a.age <= AutoCloseSeconds)
    /\ [][ \A a \in openAlerts :
             /\ ClickAlert(a) => (a \notin openAlerts' /\ lastClose'.focused)
             /\ AutoClose(a) => a \notin openAlerts' ]_vars

(* the timer closed a local alert that nobody clicked *)
C25_Witness ==
    /\ lastClose.source = "local"
    /\ lastClose.by = "timer"
    /\ \A a \in openAlerts : a.tag # lastClose.tag

(* C26: every broadcast alert carries requireInteraction and is closed no   *)
(* later than 15 s after it was raised, as a local alert is.                *)
C26_BroadcastAlertClosedWithin15s ==
    \A a \in openAlerts :
        a.source \in {"firebase", "supabase"} =>
            (a.requireInteraction /\ a.age <= AutoCloseSeconds)

(* C27: a broadcast is consumed once: whatever channel events, snapshots    *)
(* and later subscriptions follow, a handler raises an alert, and plays     *)
(* the sound, for a given broadcast at most once in a viewer session.       *)
C27_BroadcastConsumedOnce ==
    /\ (lastCallback.alerted \/ lastCallback.sounded) => ~lastCallback.wasRaised
    /\ lastCallback.handled <= 1

(* C29: a broadcast is matched against the viewer's language at the moment  *)
(* it is received: after a language change the subscription made earlier    *)
(* drops what the new language does not match and alerts for what it does.  *)
C29_MatchesCurrentLanguage ==
    [][ \A m \in Messages :
          (FirebaseReceived(m) \/ SupabaseReceived(m)) =>
             /\ lastCallback'.viewer = language
             /\ m.language \notin {"all", language}
                   => (~lastCallback'.alerted /\ ~lastCallback'.sounded)
             /\ (m.language = language /\ Granted) => lastCallback'.alerted ]_vars

(* the subscriptions made at mount dropped the "ru" message on one bridge   *)
(* while the viewer read English and alerted for it on the other after the  *)
(* viewer switched to Russian                                              *)
C29_Witness ==
    /\ << "firebase", "n2" >> \in dropped
    /\ lastCallback.bridge = "supabase" /\ lastCallback.id = "n2"
    /\ lastCallback.viewer = "ru" /\ lastCallback.alerted

(* C30: when the alert surface throws on construction for one urgent delta  *)
(* event, the sound and the alert of the remaining urgent delta events of   *)
(* the poll are still raised and the SeenSet takes the poll's identifiers.  *)
C30_ThrowingAlertDoesNotStopDispatch ==
    [][ (AlertPollDelivered /\ EffectProceeds(earthquakes', notificationPermissionRef)) =>
          LET urgentNew == UrgentIds(NewEarthquakes(earthquakes', previousEarthquakesRef))
          IN  /\ lastSounded' = urgentNew
              /\ lastAlerted' = urgentNew \ surfaceThrows
              /\ previousEarthquakesRef' = Ids(earthquakes') ]_vars

(* the constructor threw for the first urgent event of a poll; the second   *)
(* was alerted and both identifiers are in the SeenSet                      *)
C30_Witness ==
    /\ "eq1" \in surfaceThrows
    /\ lastSounded = {"eq1", "quake-3-36-34"}
    /\ lastAlerted = {"quake-3-36-34"}
    /\ {"eq1", "quake-3-36-34"} \subseteq previousEarthquakesRef

====
